---- MODULE Spec2Model ----
(***************************************************************************)
(* A model of the benchmark report pipeline of src/benchmarks_analysis.py: *)
(* BenchmarksAnalysis.run() locates the result files of one run, builds    *)
(* the table of records, draws the metric charts, computes the             *)
(* acceleration series of every competitor against the "Purem" baseline    *)
(* and writes the Markdown report.                                         *)
(*                                                                         *)
(* Text (file names, paths, function names, formatted numbers) is a        *)
(* sequence of one-character strings, so that split, startswith, endswith,  *)
(* zfill, int() and the number formats are computed and not assumed.       *)
(* Throughput and time statistics are naturals; a ratio of two throughputs *)
(* is an exact fraction <<n, d>>, with <<1, 0>>, <<-1, 0>> and <<0, 0>>    *)
(* standing for the floating point values inf, -inf and nan.               *)
(***************************************************************************)
EXTENDS Integers, Sequences, FiniteSets, Bags, TLC

VARIABLES
    argv,           \* sys.argv[1:] of the command line entry point
    clock,          \* what datetime.datetime.now() returns to benchmarks_setup
    earlier,        \* the creation times of the earlier invocations
    plotDirs,       \* the directories that exist under purem_benchmarks
    benchmarks_plot_dir, \* self.benchmarks_plot_dir
    fresh,          \* whether os.makedirs created benchmarks_plot_dir
    dirList,        \* os.listdir(benchmarks_dir): the entries, in listing order
    fileData,       \* the content of every listed file
    test_id,        \* the run identifier given to BenchmarksAnalysis
    test_number,    \* self.test_number
    pc,             \* the position of run()
    error,          \* the exception that ended the run, or NoError
    outDir,         \* whether self.benchmarks_plot_dir has been created
    artifacts,      \* the files written into self.benchmarks_plot_dir
    files,          \* the list load_benchmarks_files returned
    fileIdx,        \* how many of `files` the current loop has read
    records,        \* the rows appended so far (benchmarks_data_frame)
    df,             \* benchmarks_df of run()
    func_names,     \* df["func"].unique() of acceleration_plot
    accIdx,         \* how many of func_names the loop has handled
    series,         \* one record per competitor that reached the smoothing step
    nIntersect,     \* how many times np.intersect1d has been evaluated
    warned,         \* the warnings emitted by warnings.warn
    records_markdown, \* the rows appended so far (markdown_data_frame)
    markdown_df,    \* markdown_df of run()
    report          \* the sections written to benchmarks_table.md

vars == <<argv, clock, earlier, plotDirs, benchmarks_plot_dir, fresh,
          dirList, fileData, test_id, test_number, pc, error, outDir, artifacts,
          files, fileIdx, records, df, func_names, accIdx, series, nIntersect,
          warned, records_markdown, markdown_df, report>>

----------------------------------------------------------------------------
(* Bounds of the model. *)

\* The longest directory listing of the family of arbitrary file names.
MaxListed == 3
\* The number of result files (one per input size) of the family of tables.
MaxFiles == 5

----------------------------------------------------------------------------
(* Program constants. *)

\* str(self.test_number).zfill(4)
ZFillWidth == 4
\* matched_files[0].split("_")[2]
StampIndex == 2
\* if len(acceleration) >= 5
MinSmoothLen == 5
\* savgol_filter(acceleration, window_length=5, polyorder=2)
WindowLength == 5

----------------------------------------------------------------------------
(* Text. *)

DigitChars == <<"0", "1", "2", "3", "4", "5", "6", "7", "8", "9">>

IsDigit(c) == \E i \in 1..10 : DigitChars[i] = c

DigitVal(c) == (CHOOSE i \in 1..10 : DigitChars[i] = c) - 1

\* str(n) of an integer
RECURSIVE StrNat(_)
StrNat(n) == IF n < 10 THEN <<DigitChars[n + 1]>>
             ELSE StrNat(n \div 10) \o <<DigitChars[(n % 10) + 1]>>

Str(n) == IF n < 0 THEN <<"-">> \o StrNat(-n) ELSE StrNat(n)

Zeros(k) == [i \in 1..k |-> "0"]

\* ZFill without the padding
ZFillNone(s, width) == s

\* str.zfill(width): pads on the left, after a leading sign
ZFill(s, width) ==
    IF Len(s) >= width THEN s
    ELSE IF Len(s) > 0 /\ s[1] \in {"+", "-"}
         THEN <<s[1]>> \o Zeros(width - Len(s)) \o Tail(s)
         ELSE Zeros(width - Len(s)) \o s

StartsWith(s, p) == Len(s) >= Len(p) /\ SubSeq(s, 1, Len(p)) = p

EndsWith(s, p) == Len(s) >= Len(p) /\ SubSeq(s, Len(s) - Len(p) + 1, Len(s)) = p

\* `m in s` for strings: m occurs in s as a contiguous substring
Contains(s, m) ==
    \E i \in 1..(Len(s) - Len(m) + 1) : SubSeq(s, i, i + Len(m) - 1) = m

\* str.split(sep) for a one-character separator: always at least one token
RECURSIVE Split(_, _)
Split(s, sep) ==
    IF \A i \in 1..Len(s) : s[i] # sep THEN <<s>>
    ELSE LET k == CHOOSE i \in 1..Len(s) :
                      s[i] = sep /\ \A j \in 1..(i - 1) : s[j] # sep
         IN  <<SubSeq(s, 1, k - 1)>> \o Split(SubSeq(s, k + 1, Len(s)), sep)

RECURSIVE DigitsValue(_)
DigitsValue(s) ==
    IF Len(s) = 0 THEN 0
    ELSE 10 * DigitsValue(SubSeq(s, 1, Len(s) - 1)) + DigitVal(s[Len(s)])

\* int(s) for a string: an optional sign and decimal digits, else ValueError
ParseInt(s) ==
    LET body == IF Len(s) > 0 /\ s[1] \in {"+", "-"} THEN Tail(s) ELSE s
    IN  IF Len(body) > 0 /\ \A i \in 1..Len(body) : IsDigit(body[i])
        THEN [ok |-> TRUE,
              val |-> IF s[1] = "-" THEN -DigitsValue(body) ELSE DigitsValue(body)]
        ELSE [ok |-> FALSE, val |-> 0]

----------------------------------------------------------------------------
(* The program's text constants. *)

\* benchmarks_dir = ".benchmarks/Darwin-CPython-3.11-64bit"
BenchmarksDir ==
    <<".", "b", "e", "n", "c", "h", "m", "a", "r", "k", "s", "/", "D", "a", "r", "w", "i", "n", "-", "C", "P", "y", "t", "h", "o", "n", "-", "3", ".", "1", "1", "-", "6", "4", "b", "i", "t">>

\* ".json"
JsonExt == <<".", "j", "s", "o", "n">>

\* "Purem"
BaselineMarker == <<"P", "u", "r", "e", "m">>

NoError == [type |-> "none", pattern |-> <<>>, dir |-> <<>>]

Raise(t) == [type |-> t, pattern |-> <<>>, dir |-> <<>>]

\* os.path.join(benchmarks_dir, f)
PathJoin(d, f) == IF Len(f) > 0 /\ f[1] = "/" THEN f ELSE d \o <<"/">> \o f

\* the directory entry a path of load_benchmarks_files names
BaseName(path) == SubSeq(path, Len(BenchmarksDir) + 2, Len(path))

----------------------------------------------------------------------------
(* load_benchmarks_files and extract_size_from_filepath. *)

\* the tokens of f.split("_") do not reach index 2: IndexError
NoStamp(f) == Len(Split(f, "_")) < StampIndex + 1

StampOf(f) == Split(f, "_")[StampIndex + 1]

\* load_benchmarks_files(): [err, value]
LoadBenchmarksFiles(listing, number) ==
    LET search_pattern == ZFill(Str(number), ZFillWidth)
        matched_files == SelectSeq(listing,
            LAMBDA f : StartsWith(f, search_pattern) /\ EndsWith(f, JsonExt))
    IN  IF matched_files = <<>>
        THEN [err |-> [type |-> "FileNotFoundError",
                       pattern |-> search_pattern, dir |-> BenchmarksDir],
              value |-> <<>>]
        ELSE IF NoStamp(matched_files[1])
                \/ \E i \in 1..Len(listing) : NoStamp(listing[i])
        THEN [err |-> Raise("IndexError"), value |-> <<>>]
        ELSE LET file_stamp == StampOf(matched_files[1])
                 kept == SelectSeq(listing,
                     LAMBDA f : StampOf(f) = file_stamp /\ EndsWith(f, JsonExt))
             IN  [err |-> NoError,
                  value |-> [i \in 1..Len(kept) |-> PathJoin(BenchmarksDir, kept[i])]]

\* ExtractSizeFromFilepath reading the first token of the file's name
ExtractSizeFirstToken(filepath) ==
    ParseInt(Split(Split(BaseName(filepath), "_")[1], ".")[1])

\* extract_size_from_filepath(filepath): an int, or ValueError (ok = FALSE)
ExtractSizeFromFilepath(filepath) ==
    LET split_filepath == Split(filepath, "_")
        last == split_filepath[Len(split_filepath)]
    IN  ParseInt(Split(last, ".")[1])

----------------------------------------------------------------------------
(* The rows of the two tables. `src` is a history field, not a column: the  *)
(* path of the file the row was read from.                                 *)

Row(filepath, size, entry) ==
    [size |-> size, func |-> entry.func_name, min |-> entry.min,
     max |-> entry.max, mean |-> entry.mean, stddev |-> entry.stddev,
     ops |-> entry.ops, src |-> filepath]

\* AppendRows with the list emptied for every file
AppendRowsReset(recs, rows) == rows

\* records.append(...) for every entry of one file
AppendRows(recs, rows) == recs \o rows

\* the row markdown_data_frame appends: the same values under display names
MarkdownRow(filepath, size, b) ==
    [Elements |-> size, Function |-> b.func_name, OPS |-> b.ops,
     MinTime |-> b.min, MaxTime |-> b.max, MeanTime |-> b.mean,
     StdDev |-> b.stddev, src |-> filepath]

\* one file of benchmarks_data_frame: json.load, then one row per entry of
\* data["benchmarks"], its size read from the path inside the loop over the
\* entries: [err, rows]
BdfRows(filepath, data) ==
    IF ~data.ok THEN [err |-> Raise("ParseError"), rows |-> <<>>]
    ELSE IF data.benchmarks = <<>> THEN [err |-> NoError, rows |-> <<>>]
    ELSE LET size == ExtractSizeFromFilepath(filepath)
         IN  IF ~size.ok THEN [err |-> Raise("ValueError"), rows |-> <<>>]
             ELSE [err |-> NoError,
                   rows |-> [i \in 1..Len(data.benchmarks) |->
                                Row(filepath, size.val, data.benchmarks[i])]]

\* one file of markdown_data_frame: the same steps, the display names
MdRows(filepath, data) ==
    IF ~data.ok THEN [err |-> Raise("ParseError"), rows |-> <<>>]
    ELSE IF data.benchmarks = <<>> THEN [err |-> NoError, rows |-> <<>>]
    ELSE LET size == ExtractSizeFromFilepath(filepath)
         IN  IF ~size.ok THEN [err |-> Raise("ValueError"), rows |-> <<>>]
             ELSE [err |-> NoError,
                   rows |-> [i \in 1..Len(data.benchmarks) |->
                                MarkdownRow(filepath, size.val, data.benchmarks[i])]]

----------------------------------------------------------------------------
(* Inputs: function names, file contents, directories, run identifiers.    *)

FnPurem == <<"P", "u", "r", "e", "m">>
FnNumPy == <<"N", "u", "m", "P", "y">>
FnTorch == <<"T", "o", "r", "c", "h">>
\* A second function whose name contains the baseline marker.
FnPuremJit == <<"P", "u", "r", "e", "m", "J", "i", "t">>

\* The throughputs of the baseline and of the competitors in the k-th file.
PuremOps(k) == <<500, 900, 300, 1000, 700, 600, 450, 800>>[((k - 1) % 8) + 1]
NumPyOps(k) == <<250, 300, 600, 200, 300, 400, 900, 100>>[((k - 1) % 8) + 1]
TorchOps(k) == <<100, 450, 150, 250, 350, 200, 225, 400>>[((k - 1) % 8) + 1]

\* One entry of data["benchmarks"]: params.func_name and the stats block.
Entry(f, k, ops) ==
    [func_name |-> f, min |-> k, max |-> 10 * k + 5, mean |-> 3 * k,
     stddev |-> k - 1, ops |-> ops]

\* The content of the k-th file, by kind.
Content(kind, k) ==
    CASE kind = "both" ->
           [ok |-> TRUE, benchmarks |-> <<Entry(FnPurem, k, PuremOps(k)),
                                          Entry(FnNumPy, k, NumPyOps(k))>>]
      [] kind = "other" ->
           [ok |-> TRUE, benchmarks |-> <<Entry(FnTorch, k, TorchOps(k)),
                                          Entry(FnNumPy, k, NumPyOps(k))>>]
      [] kind = "zero" ->
           [ok |-> TRUE, benchmarks |-> <<Entry(FnPurem, k, PuremOps(k)),
                                          Entry(FnTorch, k, 0),
                                          Entry(FnNumPy, k, NumPyOps(k))>>]
      [] kind = "dup" ->
           [ok |-> TRUE, benchmarks |-> <<Entry(FnPurem, k, PuremOps(k)),
                                          Entry(FnPurem, k, PuremOps(k) + 100),
                                          Entry(FnNumPy, k, NumPyOps(k))>>]
      [] kind = "marked" ->
           [ok |-> TRUE, benchmarks |-> <<Entry(FnPurem, k, PuremOps(k)),
                                          Entry(FnPuremJit, k, PuremOps(k) + 50),
                                          Entry(FnNumPy, k, NumPyOps(k))>>]
      [] kind = "empty" -> [ok |-> TRUE, benchmarks |-> <<>>]
      [] OTHER -> [ok |-> FALSE, benchmarks |-> <<>>]

TabKinds == {"both", "other", "zero", "dup"}

\* The family of tables: file k is <000k>_c_S_<1000 k>.json.
TabName(k) ==
    ZFill(Str(k), ZFillWidth) \o <<"_", "c", "_", "S", "_">> \o Str(1000 * k) \o JsonExt

\* The family of arbitrary directories: names that follow the grammar
\* <id>_<tag>_<stamp>_<size>.json and names that do not.
NameA == <<"0", "0", "0", "1", "_", "c", "_", "S", "_", "1", "0", "0", "0", ".", "j", "s", "o", "n">>
NameB == <<"0", "0", "0", "2", "_", "c", "_", "S", "_", "2", "0", "0", "0", ".", "j", "s", "o", "n">>
NameC == <<"0", "0", "0", "1", "_", "c", "_", "T", "_", "3", "0", "0", "0", ".", "j", "s", "o", "n">>
NameD == <<"0", "0", "0", "1", "_", "c", "_", "S", "_", "4", "0", "0", "0", ".", "t", "x", "t">>
NameE == <<".", "D", "S", "_", "S", "t", "o", "r", "e">>
NameF == <<"0", "0", "0", "1", "_", "x", ".", "j", "s", "o", "n">>
NameG == <<"0", "0", "0", "3", "_", "c", "_", "S", "_", "a", "b", "c", ".", "j", "s", "o", "n">>
NameH == <<"0", "0", "0", "3", "_", "c", "_", "T", "_", "2", "0", ".", "5", ".", "j", "s", "o", "n">>
NameI == <<"0", "0", "0", "2", "_", "c", "_", "T", "_", "5", "0", "0", "0", ".", "j", "s", "o", "n">>

LocPool == <<NameA, NameB, NameC, NameD, NameE, NameF, NameG, NameH, NameI>>

LocContent(i) ==
    CASE LocPool[i] = NameI -> Content("malformed", i)
      [] LocPool[i] = NameC -> Content("dup", i)
      [] LocPool[i] = NameH -> Content("marked", i)
      [] OTHER -> Content("both", i)

\* The run identifiers.
IdPool == {<<"1">>, <<"2">>, <<"3">>, <<"9", "9", "9", "9">>, <<"x">>}

\* The sequences of at most n distinct elements of 1..m.
RECURSIVE Listings(_, _)
Listings(m, n) ==
    IF n = 0 THEN {<<>>}
    ELSE LET shorter == Listings(m, n - 1)
         IN  shorter \cup
             UNION {{Append(l, i) : i \in (1..m) \ {l[j] : j \in 1..Len(l)}} :
                        l \in {x \in shorter : Len(x) = n - 1}}

\* A datetime of 5 April 2025, 12:30.
At(second, microsecond) ==
    [year |-> 2025, month |-> 4, day |-> 5, hour |-> 12, minute |-> 30,
     second |-> second, microsecond |-> microsecond]

\* current_time.strftime("%Y-%m-%d_%H_%M_%S__%f")
Strftime(t) ==
    ZFill(Str(t.year), 4) \o <<"-">> \o ZFill(Str(t.month), 2) \o <<"-">>
        \o ZFill(Str(t.day), 2) \o <<"_">> \o ZFill(Str(t.hour), 2) \o <<"_">>
        \o ZFill(Str(t.minute), 2) \o <<"_">> \o ZFill(Str(t.second), 2)
        \o <<"_", "_">> \o ZFill(Str(t.microsecond), 6)

\* the slice [:-4]
StampCut == 4

PlotDirPrefix == <<"p", "u", "r", "e", "m", "_", "b", "e", "n", "c", "h", "m", "a", "r", "k", "s", "_">>

\* benchmarks_id of benchmarks_setup at the time t
BenchmarksId(t) ==
    PlotDirPrefix \o SubSeq(Strftime(t), 1, Len(Strftime(t)) - StampCut)

\* os.makedirs(benchmarks_plot_dir, exist_ok=True): the directory, the
\* directories that exist afterwards, and whether the call created it
BenchmarksSetup(t, existing) ==
    [dir |-> BenchmarksId(t),
     dirs |-> existing \cup {BenchmarksId(t)},
     created |-> BenchmarksId(t) \notin existing]

\* The creation times of the invocations.
TimePool ==
    {At(s, us) : s \in {7, 8}, us \in {0, 9999, 10000, 123456}}

\* The time a is before the time b (both of the same hour).
Before(a, b) ==
    \/ a.minute < b.minute
    \/ a.minute = b.minute /\ a.second < b.second
    \/ a.minute = b.minute /\ a.second = b.second /\ a.microsecond < b.microsecond

\* Nothing has run yet.
Unstarted ==
    /\ benchmarks_plot_dir = <<>>
    /\ fresh = FALSE
    /\ error = NoError
    /\ test_number = 0
    /\ outDir = FALSE
    /\ artifacts = {}
    /\ files = <<>>
    /\ fileIdx = 0
    /\ records = <<>>
    /\ df = <<>>
    /\ func_names = <<>>
    /\ accIdx = 0
    /\ series = <<>>
    /\ nIntersect = 0
    /\ warned = 0
    /\ records_markdown = <<>>
    /\ markdown_df = <<>>
    /\ report = <<>>

\* BenchmarksAnalysis(test_id).run() in a directory tree without the output
\* of an earlier invocation.
Start ==
    /\ pc = "start"
    /\ argv = <<>>
    /\ clock = At(7, 0)
    /\ earlier = {}
    /\ plotDirs = {}
    /\ Unstarted

\* Any listing of at most MaxListed names of the pool, any identifier.
InitLoc ==
    /\ \E l \in Listings(Len(LocPool), MaxListed) :
          /\ dirList = [i \in 1..Len(l) |-> LocPool[l[i]]]
          /\ fileData = [f \in {LocPool[l[i]] : i \in 1..Len(l)} |->
                            LocContent(CHOOSE i \in 1..Len(LocPool) : LocPool[i] = f)]
    /\ test_id \in IdPool
    /\ Start

\* MaxFiles files of one run, one per size, listed in ascending or in
\* descending order of size: all of one kind, but for at most two of them.
InitTab ==
    /\ \E kinds \in [1..MaxFiles -> TabKinds], descending \in BOOLEAN :
          /\ \E base \in TabKinds, j1, j2 \in 1..MaxFiles :
                \A i \in (1..MaxFiles) \ {j1, j2} : kinds[i] = base
          /\ dirList = [i \in 1..MaxFiles |->
                           TabName(IF descending THEN MaxFiles + 1 - i ELSE i)]
          /\ fileData = [f \in {TabName(k) : k \in 1..MaxFiles} |->
                            LET k == CHOOSE j \in 1..MaxFiles : TabName(j) = f
                            IN  Content(kinds[k], k)]
    /\ test_id = <<"1">>
    /\ Start

\* One result file; an earlier invocation has made its output directory and
\* this one is constructed at a later time.
InitSetup ==
    /\ dirList = <<NameA>>
    /\ fileData = [f \in {NameA} |-> Content("both", 1)]
    /\ test_id = <<"1">>
    /\ pc = "start"
    /\ argv = <<>>
    /\ \E t \in TimePool :
          /\ earlier = {t}
          /\ plotDirs = BenchmarksSetup(t, {}).dirs
    /\ clock \in {t \in TimePool : \A e \in earlier : Before(e, t)}
    /\ Unstarted

\* The words of a command line.
ArgPool == {<<"1">>, <<"x">>, <<"D", "a", "r", "w", "i", "n">>}

\* python performance_plots.py with no, one or two arguments.
InitCli ==
    /\ dirList = <<NameA>>
    /\ fileData = [f \in {NameA} |-> Content("both", 1)]
    /\ test_id = <<>>
    /\ pc = "main"
    /\ argv \in {<<>>} \cup {<<a>> : a \in ArgPool}
                    \cup {<<a, b>> : a, b \in ArgPool}
    /\ clock = At(7, 0)
    /\ earlier = {}
    /\ plotDirs = {}
    /\ Unstarted

Init == InitLoc \/ InitTab \/ InitSetup \/ InitCli

----------------------------------------------------------------------------
(* run(): the constructor and benchmarks_data_frame.                       *)

\* An exception leaves run(): pc stays at the call that raised it.
Fail(e) ==
    /\ error' = e
    /\ UNCHANGED pc

\* performance_plots.py: test_id = sys.argv[1], platform = sys.argv[2], then
\* BenchmarksAnalysis(test_id, platform), one argument more than __init__
\* takes: the call raises before the body of __init__ runs.
Main ==
    /\ pc = "main"
    /\ error = NoError
    /\ test_id' = IF Len(argv) >= 1 THEN argv[1] ELSE test_id
    /\ IF Len(argv) < 2
       THEN Fail(Raise("IndexError"))
       ELSE Fail(Raise("TypeError"))
    /\ UNCHANGED <<argv, clock, earlier, plotDirs, benchmarks_plot_dir, fresh,
                   dirList, fileData, test_number, outDir, artifacts, files,
                   fileIdx, records, df, func_names, accIdx, series, nIntersect,
                   warned, records_markdown, markdown_df, report>>

\* BenchmarksAnalysis(test_id): benchmarks_setup() creates the output
\* directory, then int(test_id).
Construct ==
    /\ pc = "start"
    /\ error = NoError
    /\ LET d == BenchmarksSetup(clock, plotDirs)
       IN  /\ benchmarks_plot_dir' = d.dir
           /\ plotDirs' = d.dirs
           /\ fresh' = d.created
    /\ outDir' = TRUE
    /\ LET n == ParseInt(test_id)
       IN  IF n.ok
           THEN /\ test_number' = n.val
                /\ pc' = "bdf_load"
                /\ UNCHANGED error
           ELSE /\ Fail(Raise("ValueError"))
                /\ UNCHANGED test_number
    /\ UNCHANGED <<argv, clock, earlier,
                   dirList, fileData, test_id, artifacts, files, fileIdx, records,
                   df, func_names, accIdx, series, nIntersect, warned,
                   records_markdown, markdown_df, report>>

\* files = self.load_benchmarks_files(); records = []
BdfLoad ==
    /\ pc = "bdf_load"
    /\ error = NoError
    /\ LET r == LoadBenchmarksFiles(dirList, test_number)
       IN  IF r.err = NoError
           THEN /\ files' = r.value
                /\ fileIdx' = 0
                /\ records' = <<>>
                /\ pc' = "bdf_read"
                /\ UNCHANGED error
           ELSE /\ Fail(r.err)
                /\ UNCHANGED <<files, fileIdx, records>>
    /\ UNCHANGED <<argv, clock, earlier, plotDirs, benchmarks_plot_dir, fresh,
                   dirList, fileData, test_id, test_number, outDir, artifacts, df,
                   func_names, accIdx, series, nIntersect, warned,
                   records_markdown, markdown_df, report>>

\* one iteration of `for filepath in files`
BdfReadFile ==
    /\ pc = "bdf_read"
    /\ error = NoError
    /\ fileIdx < Len(files)
    /\ LET filepath == files[fileIdx + 1]
           r == BdfRows(filepath, fileData[BaseName(filepath)])
       IN  IF r.err = NoError
           THEN /\ records' = AppendRows(records, r.rows)
                /\ fileIdx' = fileIdx + 1
                /\ UNCHANGED <<pc, error>>
           ELSE /\ Fail(r.err)
                /\ UNCHANGED <<records, fileIdx>>
    /\ UNCHANGED <<argv, clock, earlier, plotDirs, benchmarks_plot_dir, fresh,
                   dirList, fileData, test_id, test_number, outDir, artifacts,
                   files, df, func_names, accIdx, series, nIntersect, warned,
                   records_markdown, markdown_df, report>>

\* return pd.DataFrame(records)
BdfReturn ==
    /\ pc = "bdf_read"
    /\ error = NoError
    /\ fileIdx = Len(files)
    /\ df' = records
    /\ pc' = "plot"
    /\ UNCHANGED <<argv, clock, earlier, plotDirs, benchmarks_plot_dir, fresh,
                   dirList, fileData, test_id, test_number, error, outDir,
                   artifacts, files, fileIdx, records, func_names, accIdx, series,
                   nIntersect, warned, records_markdown, markdown_df, report>>

----------------------------------------------------------------------------
(* Floating point ratios as exact fractions.                               *)

RECURSIVE Gcd(_, _)
Gcd(a, b) == IF b = 0 THEN a ELSE Gcd(b, a % b)

Abs(x) == IF x < 0 THEN -x ELSE x

Inf == <<1, 0>>
NegInf == <<-1, 0>>
NaN == <<0, 0>>

IsFinite(r) == r[2] # 0

\* n / d for d > 0, in lowest terms
RatNorm(n, d) == LET g == Gcd(Abs(n), d) IN <<n \div g, d \div g>>

\* p / q of two non-negative floats: x / 0 is inf, 0 / 0 is nan
Div(p, q) == IF q # 0 THEN RatNorm(p, q) ELSE IF p = 0 THEN NaN ELSE Inf

RatAdd(a, b) ==
    IF a = NaN \/ b = NaN THEN NaN
    ELSE IF ~IsFinite(a) /\ ~IsFinite(b) THEN (IF a = b THEN a ELSE NaN)
    ELSE IF ~IsFinite(a) THEN a
    ELSE IF ~IsFinite(b) THEN b
    ELSE RatNorm(a[1] * b[2] + b[1] * a[2], a[2] * b[2])

\* c * a for an integer c
RatScale(c, a) ==
    IF a = NaN THEN NaN
    ELSE IF ~IsFinite(a)
         THEN (IF c = 0 THEN NaN ELSE IF c > 0 THEN a ELSE <<-a[1], 0>>)
    ELSE RatNorm(c * a[1], a[2])

\* a / k for an integer k > 0
RatOver(a, k) == IF IsFinite(a) THEN RatNorm(a[1], a[2] * k) ELSE a

----------------------------------------------------------------------------
(* scipy.signal.savgol_filter(x, window_length=5, polyorder=2), mode       *)
(* "interp": the least-squares parabola through a window of 5 points,      *)
(* evaluated at the window's centre and, for the first and last two        *)
(* points, at their place in the first and the last window. Row p of       *)
(* SavgolRows, over 35, gives the value at place p of a window.            *)

SavgolRows == << <<31, 9, -3, -5, 3>>,
                 <<9, 13, 12, 6, -5>>,
                 <<-3, 12, 17, 12, -3>>,
                 <<-5, 6, 12, 13, 9>>,
                 <<3, -5, -3, 9, 31>> >>

SavgolDenominator == 35

RECURSIVE WeightedSum(_, _, _)
WeightedSum(row, window, k) ==
    IF k = 0 THEN <<0, 1>>
    ELSE RatAdd(WeightedSum(row, window, k - 1), RatScale(row[k], window[k]))

\* SavgolFilter keeping only the points with a full window around them
SavgolFilterValid(x) ==
    LET half == WindowLength \div 2
    IN  [i \in 1..(Len(x) - 2 * half) |->
            RatOver(WeightedSum(SavgolRows[half + 1],
                                SubSeq(x, i, i + WindowLength - 1), WindowLength),
                    SavgolDenominator)]

SavgolFilter(x) ==
    LET n == Len(x)
        half == WindowLength \div 2
        first(i) == IF i <= half THEN 1
                    ELSE IF i > n - half THEN n - WindowLength + 1
                    ELSE i - half
    IN  [i \in 1..n |->
            RatOver(WeightedSum(SavgolRows[i - first(i) + 1],
                                SubSeq(x, first(i), first(i) + WindowLength - 1),
                                WindowLength),
                    SavgolDenominator)]

\* The filter's fit of the edges (numpy.polyfit) may raise on inf or nan.
FilterMayRaise(x) == \E i \in 1..Len(x) : ~IsFinite(x[i])

----------------------------------------------------------------------------
(* Tables: the pandas and numpy operations acceleration_plot uses.         *)

\* Series.unique(): the distinct values in order of first appearance
RECURSIVE Unique(_)
Unique(s) ==
    IF s = <<>> THEN <<>>
    ELSE LET front == Unique(SubSeq(s, 1, Len(s) - 1))
             x == s[Len(s)]
         IN  IF \E i \in 1..Len(front) : front[i] = x THEN front
             ELSE Append(front, x)

\* frame["size"] and frame["func"]
Sizes(rows) == [i \in 1..Len(rows) |-> rows[i].size]

Funcs(rows) == [i \in 1..Len(rows) |-> rows[i].func]

SeqRange(s) == {s[i] : i \in 1..Len(s)}

\* key a sorts before key b: pairs in lexicographic order
KeyLess(a, b) == a[1] < b[1] \/ (a[1] = b[1] /\ a[2] < b[2])

\* rows[1..k] in ascending order of keys: each row is inserted after every
\* row whose key is not greater (a stable sort)
RECURSIVE InsertByKey(_, _, _)
InsertByKey(sorted, r, keys) ==
    IF sorted = <<>> THEN <<r>>
    ELSE IF KeyLess(keys[r], keys[sorted[Len(sorted)]])
         THEN Append(InsertByKey(SubSeq(sorted, 1, Len(sorted) - 1), r, keys),
                     sorted[Len(sorted)])
         ELSE Append(sorted, r)

RECURSIVE SortedIndices(_, _)
SortedIndices(keys, k) ==
    IF k = 0 THEN <<>> ELSE InsertByKey(SortedIndices(keys, k - 1), k, keys)

\* DataFrame.sort_values: the rows in ascending order of their keys
SortByKeys(rows, keys) ==
    LET order == SortedIndices(keys, Len(rows))
    IN  [i \in 1..Len(rows) |-> rows[order[i]]]

\* DataFrame.sort_values("size")
SortBySize(rows) == SortByKeys(rows, [i \in 1..Len(rows) |-> <<rows[i].size, 0>>])

\* a set of integers in ascending order
RECURSIVE Ascending(_)
Ascending(S) ==
    IF S = {} THEN <<>>
    ELSE LET m == CHOOSE x \in S : \A y \in S : x <= y
         IN  <<m>> \o Ascending(S \ {m})

\* np.intersect1d(a, b): the sorted distinct common values
Intersect1d(a, b) == Ascending(SeqRange(a) \cap SeqRange(b))

\* IsBaseline that lets the baseline through
IsBaselineNever(name) == FALSE

\* the loop's test: if "Purem" in func_name: continue
IsBaseline(name) == Contains(name, BaselineMarker)

\* HasBaseline with the assertion compiled away
HasBaselineUnchecked(names) == TRUE

\* any("Purem" in name for name in func_names)
HasBaseline(names) == \E i \in 1..Len(names) : Contains(names[i], BaselineMarker)

\* DfPurem without its sort_values("size")
DfPuremUnsorted(table) ==
    SelectSeq(table, LAMBDA r : Contains(r.func, BaselineMarker))

\* df[df["func"].str.contains("Purem")].sort_values("size")
DfPurem(table) ==
    SortBySize(SelectSeq(table, LAMBDA r : Contains(r.func, BaselineMarker)))

\* df[df["func"] == func_name].sort_values("size")
DfOther(table, func_name) ==
    SortBySize(SelectSeq(table, LAMBDA r : r.func = func_name))

\* frame[frame["size"].isin(common_sizes)]["ops"].values
OpsAt(frame, common_sizes) ==
    LET kept == SelectSeq(frame, LAMBDA r : r.size \in SeqRange(common_sizes))
    IN  [i \in 1..Len(kept) |-> kept[i].ops]

\* purem_ops / other_ops: element by element, a one-element array stretched
\* to the other's length, any other pair of lengths a ValueError
Acceleration(purem_ops, other_ops) ==
    IF Len(purem_ops) = Len(other_ops)
    THEN [ok |-> TRUE,
          val |-> [i \in 1..Len(purem_ops) |-> Div(purem_ops[i], other_ops[i])]]
    ELSE IF Len(purem_ops) = 1
    THEN [ok |-> TRUE,
          val |-> [i \in 1..Len(other_ops) |-> Div(purem_ops[1], other_ops[i])]]
    ELSE IF Len(other_ops) = 1
    THEN [ok |-> TRUE,
          val |-> [i \in 1..Len(purem_ops) |-> Div(purem_ops[i], other_ops[1])]]
    ELSE [ok |-> FALSE, val |-> <<>>]

\* Smooth without the except clause: the filter's exception leaves the loop
SmoothNoExcept(acceleration, filterRaises) ==
    IF Len(acceleration) >= MinSmoothLen
    THEN IF filterRaises
         THEN [err |-> Raise("LinAlgError"), smooth |-> acceleration,
               attempted |-> TRUE, raised |-> TRUE]
         ELSE [err |-> NoError, smooth |-> SavgolFilter(acceleration),
               attempted |-> TRUE, raised |-> FALSE]
    ELSE [err |-> NoError, smooth |-> acceleration,
          attempted |-> FALSE, raised |-> FALSE]

\* the try block: the filter for at least 5 points, the unsmoothed sequence
\* otherwise and, with a warning, when the filter raises
Smooth(acceleration, filterRaises) ==
    IF Len(acceleration) >= MinSmoothLen
    THEN IF filterRaises
         THEN [err |-> NoError, smooth |-> acceleration,
               attempted |-> TRUE, raised |-> TRUE]
         ELSE [err |-> NoError, smooth |-> SavgolFilter(acceleration),
               attempted |-> TRUE, raised |-> FALSE]
    ELSE [err |-> NoError, smooth |-> acceleration,
          attempted |-> FALSE, raised |-> FALSE]

----------------------------------------------------------------------------
(* run(): benchmarks_plot and acceleration_plot.                           *)

Metrics == {"min", "max", "mean", "stddev", "ops"}

\* benchmarks_plot(df): a table without rows has no "func" column
BenchmarksPlot ==
    /\ pc = "plot"
    /\ error = NoError
    /\ IF df = <<>>
       THEN /\ Fail(Raise("KeyError"))
            /\ UNCHANGED artifacts
       ELSE /\ artifacts' = artifacts \cup {<<"benchmark", m, v>> :
                                               m \in Metrics, v \in {"full", "large"}}
            /\ pc' = "acc_start"
            /\ UNCHANGED error
    /\ UNCHANGED <<argv, clock, earlier, plotDirs, benchmarks_plot_dir, fresh,
                   dirList, fileData, test_id, test_number, outDir, files, fileIdx,
                   records, df, func_names, accIdx, series, nIntersect, warned,
                   records_markdown, markdown_df, report>>

\* acceleration_plot(df) up to the loop: the names, the assertion
AccStart ==
    /\ pc = "acc_start"
    /\ error = NoError
    /\ func_names' = Unique(Funcs(df))
    /\ accIdx' = 0
    /\ IF HasBaseline(func_names')
       THEN /\ pc' = "acc_loop"
            /\ UNCHANGED error
       ELSE Fail(Raise("AssertionError"))
    /\ UNCHANGED <<argv, clock, earlier, plotDirs, benchmarks_plot_dir, fresh,
                   dirList, fileData, test_id, test_number, outDir, artifacts,
                   files, fileIdx, records, df, series, nIntersect, warned,
                   records_markdown, markdown_df, report>>

\* one iteration of `for func_name in func_names`
AccCompetitor ==
    /\ pc = "acc_loop"
    /\ error = NoError
    /\ accIdx < Len(func_names)
    /\ LET func_name == func_names[accIdx + 1]
           df_purem == DfPurem(df)
           df_other == DfOther(df, func_name)
           common_sizes == Intersect1d(Sizes(df_purem), Sizes(df_other))
           acceleration == Acceleration(OpsAt(df_purem, common_sizes),
                                        OpsAt(df_other, common_sizes))
       IN  IF IsBaseline(func_name)
           THEN /\ accIdx' = accIdx + 1
                /\ UNCHANGED <<error, series, nIntersect, warned>>
           ELSE /\ nIntersect' = nIntersect + 1
                /\ IF Len(common_sizes) = 0
                   THEN /\ accIdx' = accIdx + 1
                        /\ UNCHANGED <<error, series, warned>>
                   ELSE IF ~acceleration.ok
                   THEN /\ error' = Raise("ValueError")
                        /\ UNCHANGED <<accIdx, series, warned>>
                   ELSE \E filterRaises \in
                            {FALSE} \cup {b \in {TRUE} : FilterMayRaise(acceleration.val)} :
                        LET s == Smooth(acceleration.val, filterRaises)
                            drawn == s.err = NoError
                                     /\ Len(common_sizes) = Len(s.smooth)
                        IN  /\ series' = Append(series,
                                [func |-> func_name, sizes |-> common_sizes,
                                 ratios |-> acceleration.val, smooth |-> s.smooth,
                                 attempted |-> s.attempted, raised |-> s.raised,
                                 drawn |-> drawn])
                            /\ warned' = IF s.raised /\ s.err = NoError
                                         THEN warned + 1 ELSE warned
                            /\ IF drawn
                               THEN /\ accIdx' = accIdx + 1
                                    /\ UNCHANGED error
                               ELSE /\ error' = IF s.err # NoError THEN s.err
                                                ELSE Raise("ValueError")
                                    /\ UNCHANGED accIdx
    /\ UNCHANGED <<argv, clock, earlier, plotDirs, benchmarks_plot_dir, fresh,
                   dirList, fileData, test_id, test_number, pc, outDir, artifacts,
                   files, fileIdx, records, df, func_names, records_markdown,
                   markdown_df, report>>

\* the rest of acceleration_plot: plt.savefig
AccFinish ==
    /\ pc = "acc_loop"
    /\ error = NoError
    /\ accIdx = Len(func_names)
    /\ artifacts' = artifacts \cup {<<"benchmark", "acceleration", "large">>}
    /\ pc' = "md_load"
    /\ UNCHANGED <<argv, clock, earlier, plotDirs, benchmarks_plot_dir, fresh,
                   dirList, fileData, test_id, test_number, error, outDir, files,
                   fileIdx, records, df, func_names, accIdx, series, nIntersect,
                   warned, records_markdown, markdown_df, report>>

----------------------------------------------------------------------------
(* run(): markdown_data_frame and markdown_save.                           *)

\* f"{x:.2f}" of a whole number
Fmt2f(x) == Str(x) \o <<".", "0", "0">>

RECURSIVE Pow10(_)
Pow10(k) == IF k = 0 THEN 1 ELSE 10 * Pow10(k - 1)

\* f"{x:.2e}" of a whole number: three significant digits, a tie to even
Fmt2e(x) ==
    LET digits == Len(Str(x))
        unit == IF digits > 3 THEN Pow10(digits - 3) ELSE 1
        q == x \div unit
        r == x % unit
        up == 2 * r > unit \/ (2 * r = unit /\ q % 2 = 1)
        m0 == IF digits > 3 THEN (IF up THEN q + 1 ELSE q)
              ELSE x * Pow10(3 - digits)
        carry == m0 >= 1000
        m == IF x = 0 THEN <<"0", "0", "0">>
             ELSE Str(IF carry THEN m0 \div 10 ELSE m0)
        e == IF x = 0 THEN 0 ELSE IF carry THEN digits ELSE digits - 1
    IN  <<m[1], ".", m[2], m[3], "e", "+">> \o ZFill(Str(e), 2)

\* MdSortKey with both columns ascending
MdSortKeyAscending(r) == <<r.Elements, r.OPS>>

\* sort_values(by=["Elements", "OPS"], ascending=[True, False]): the key
MdSortKey(r) == <<r.Elements, -r.OPS>>

\* the four time columns and OPS mapped to text
MdFormat(r) ==
    [r EXCEPT !.MinTime = Fmt2e(r.MinTime), !.MaxTime = Fmt2e(r.MaxTime),
              !.MeanTime = Fmt2e(r.MeanTime), !.StdDev = Fmt2e(r.StdDev),
              !.OPS = Fmt2f(r.OPS)]

\* group.drop(columns=["Elements"]).to_markdown(index=False): one line
MdLine(r) ==
    [Function |-> r.Function, OPS |-> r.OPS, MinTime |-> r.MinTime,
     MaxTime |-> r.MaxTime, MeanTime |-> r.MeanTime, StdDev |-> r.StdDev]

\* markdown_save: sort, format, group by "Elements" (groups in ascending key
\* order, rows in their order in the frame), one section per group
MarkdownSections(table) ==
    LET sorted == SortByKeys(table, [i \in 1..Len(table) |-> MdSortKey(table[i])])
        formatted == [i \in 1..Len(sorted) |-> MdFormat(sorted[i])]
        keys == Ascending({formatted[i].Elements : i \in 1..Len(formatted)})
    IN  [k \in 1..Len(keys) |->
            LET group == SelectSeq(formatted, LAMBDA r : r.Elements = keys[k])
            IN  [size |-> keys[k],
                 lines |-> [i \in 1..Len(group) |-> MdLine(group[i])]]]

\* files = self.load_benchmarks_files(); records_markdown = []
MdLoad ==
    /\ pc = "md_load"
    /\ error = NoError
    /\ LET r == LoadBenchmarksFiles(dirList, test_number)
       IN  IF r.err = NoError
           THEN /\ files' = r.value
                /\ fileIdx' = 0
                /\ records_markdown' = <<>>
                /\ pc' = "md_read"
                /\ UNCHANGED error
           ELSE /\ Fail(r.err)
                /\ UNCHANGED <<files, fileIdx, records_markdown>>
    /\ UNCHANGED <<argv, clock, earlier, plotDirs, benchmarks_plot_dir, fresh,
                   dirList, fileData, test_id, test_number, outDir, artifacts,
                   records, df, func_names, accIdx, series, nIntersect, warned,
                   markdown_df, report>>

\* one iteration of `for filepath in files`
MdReadFile ==
    /\ pc = "md_read"
    /\ error = NoError
    /\ fileIdx < Len(files)
    /\ LET filepath == files[fileIdx + 1]
           r == MdRows(filepath, fileData[BaseName(filepath)])
       IN  IF r.err = NoError
           THEN /\ records_markdown' = AppendRows(records_markdown, r.rows)
                /\ fileIdx' = fileIdx + 1
                /\ UNCHANGED <<pc, error>>
           ELSE /\ Fail(r.err)
                /\ UNCHANGED <<records_markdown, fileIdx>>
    /\ UNCHANGED <<argv, clock, earlier, plotDirs, benchmarks_plot_dir, fresh,
                   dirList, fileData, test_id, test_number, outDir, artifacts,
                   files, records, df, func_names, accIdx, series, nIntersect,
                   warned, markdown_df, report>>

\* return pd.DataFrame(records_markdown)
MdReturn ==
    /\ pc = "md_read"
    /\ error = NoError
    /\ fileIdx = Len(files)
    /\ markdown_df' = records_markdown
    /\ pc' = "md_save"
    /\ UNCHANGED <<argv, clock, earlier, plotDirs, benchmarks_plot_dir, fresh,
                   dirList, fileData, test_id, test_number, error, outDir,
                   artifacts, files, fileIdx, records, df, func_names, accIdx,
                   series, nIntersect, warned, records_markdown, report>>

\* markdown_save(markdown_df): a table without rows has no "Elements" column
MarkdownSave ==
    /\ pc = "md_save"
    /\ error = NoError
    /\ IF markdown_df = <<>>
       THEN /\ Fail(Raise("KeyError"))
            /\ UNCHANGED <<artifacts, report>>
       ELSE /\ report' = MarkdownSections(markdown_df)
            /\ artifacts' = artifacts \cup {<<"benchmarks", "table", "md">>}
            /\ pc' = "done"
            /\ UNCHANGED error
    /\ UNCHANGED <<argv, clock, earlier, plotDirs, benchmarks_plot_dir, fresh,
                   dirList, fileData, test_id, test_number, outDir, files, fileIdx,
                   records, df, func_names, accIdx, series, nIntersect, warned,
                   records_markdown, markdown_df>>

Next ==
    \/ Main
    \/ Construct
    \/ BdfLoad
    \/ BdfReadFile
    \/ BdfReturn
    \/ BenchmarksPlot
    \/ AccStart
    \/ AccCompetitor
    \/ AccFinish
    \/ MdLoad
    \/ MdReadFile
    \/ MdReturn
    \/ MarkdownSave

Spec == Init /\ [][Next]_vars

----------------------------------------------------------------------------
(* Properties.                                                             *)

\* load_benchmarks_files has been called and has returned or raised.
Loaded == pc \notin {"main", "start"} /\ ~(pc = "bdf_load" /\ error = NoError)

\* The call of load_benchmarks_files raised.
LoadRaised == pc \in {"bdf_load", "md_load"} /\ error # NoError

\* acceleration_plot has run past its assertion, or has failed it.
AccelerationChecked ==
    \/ pc \in {"acc_loop", "md_load", "md_read", "md_save", "done"}
    \/ pc = "acc_start" /\ error # NoError

BaselineRows == {i \in 1..Len(df) : Contains(df[i].func, BaselineMarker)}

RowsOf(name) == {i \in 1..Len(df) : df[i].func = name}

\* The sizes present both for the baseline and for the function `name`.
CommonSizes(name) ==
    {df[i].size : i \in BaselineRows} \cap {df[i].size : i \in RowsOf(name)}

\* The fraction r is the quotient p / q of two throughputs.
IsQuotient(r, p, q) ==
    IF q = 0 THEN r[2] = 0 ELSE r[2] > 0 /\ r[1] * q = p * r[2]

\* C1: every size of a drawn series occurs in the baseline's rows and in the
\* competitor's rows, the sizes ascend, and the unsmoothed ratio paired with
\* a size is the baseline's throughput at that size over the competitor's.
C1_RatioAtCommonSizes ==
    \A k \in 1..Len(series) :
        series[k].drawn =>
            /\ Len(series[k].ratios) = Len(series[k].sizes)
            /\ \A i \in 1..Len(series[k].sizes) :
                  /\ i > 1 => series[k].sizes[i - 1] < series[k].sizes[i]
                  /\ series[k].sizes[i] \in CommonSizes(series[k].func)
                  /\ \A b \in BaselineRows, c \in RowsOf(series[k].func) :
                        df[b].size = series[k].sizes[i] /\ df[c].size = series[k].sizes[i]
                            => IsQuotient(series[k].ratios[i], df[b].ops, df[c].ops)

\* C1's scenario: baseline (1000, 500), (2000, 900) and competitor
\* (1000, 250), (2000, 300) give ratios 2 and 3 at sizes 1000 and 2000.
C1_Witness ==
    /\ {<<df[i].size, df[i].ops>> : i \in BaselineRows} = {<<1000, 500>>, <<2000, 900>>}
    /\ {<<df[i].size, df[i].ops>> : i \in RowsOf(FnNumPy)} = {<<1000, 250>>, <<2000, 300>>}
    /\ \E k \in 1..Len(series) :
          /\ series[k].drawn
          /\ series[k].func = FnNumPy
          /\ series[k].sizes = <<1000, 2000>>
          /\ series[k].ratios = << <<2, 1>>, <<3, 1>> >>

\* The identifier n rendered as at least four decimal digits.
IsPadded(p, n) ==
    /\ Len(p) = (IF Len(Str(n)) > ZFillWidth THEN Len(Str(n)) ELSE ZFillWidth)
    /\ \A j \in 1..Len(p) : IsDigit(p[j])
    /\ DigitsValue(p) = n

\* The directory entry f starts with the padded identifier and ends with
\* the extension.
PrefixMatch(f) ==
    /\ EndsWith(f, JsonExt)
    /\ \E k \in 0..Len(f) : IsPadded(SubSeq(f, 1, k), test_number)

HasMatch == \E i \in 1..Len(dirList) : PrefixMatch(dirList[i])

FirstMatch == dirList[CHOOSE i \in 1..Len(dirList) :
                  PrefixMatch(dirList[i]) /\ \A j \in 1..(i - 1) : ~PrefixMatch(dirList[j])]

\* C2: with at least one entry that starts with the padded identifier and
\* ends with the extension, load_benchmarks_files does not fail and returns
\* a non-empty list: exactly the entries with the extension whose third
\* token is that of the first such entry.
C2_LocatorReturnsRunFiles ==
    (Loaded /\ HasMatch) =>
        /\ ~LoadRaised
        /\ files # <<>>
        /\ SeqRange(files) =
              {PathJoin(BenchmarksDir, dirList[i]) : i \in
                  {j \in 1..Len(dirList) :
                      /\ EndsWith(dirList[j], JsonExt)
                      /\ StampOf(dirList[j]) = StampOf(FirstMatch)}}
        /\ \A i, j \in 1..Len(files) :
              StampOf(BaseName(files[i])) = StampOf(BaseName(files[j]))

\* C3: with no entry that starts with the padded identifier and ends with
\* the extension, load_benchmarks_files raises FileNotFoundError naming the
\* padded identifier and the directory; no list is returned, no file is
\* read and no record is produced.
C3_NotFound ==
    (Loaded /\ ~HasMatch) =>
        /\ pc = "bdf_load"
        /\ error.type = "FileNotFoundError"
        /\ IsPadded(error.pattern, test_number)
        /\ error.dir = BenchmarksDir
        /\ files = <<>> /\ fileIdx = 0
        /\ records = <<>> /\ df = <<>>

\* C3's scenario: identifier 9999 in a directory that holds other runs.
C3_Witness ==
    /\ dirList # <<>>
    /\ pc = "bdf_load"
    /\ error.type = "FileNotFoundError"
    /\ error.pattern = <<"9", "9", "9", "9">>
    /\ error.dir = BenchmarksDir

\* C4: when no function name of the table contains the marker,
\* acceleration_plot fails its assertion before any intersection or ratio
\* is computed, and no acceleration series is drawn or saved.
C4_NoBaselineFails ==
    (AccelerationChecked /\ BaselineRows = {}) =>
        /\ pc = "acc_start"
        /\ error.type = "AssertionError"
        /\ nIntersect = 0
        /\ series = <<>>
        /\ <<"benchmark", "acceleration", "large">> \notin artifacts

C4_Witness ==
    /\ pc = "acc_start"
    /\ error.type = "AssertionError"
    /\ Len(func_names) >= 2
    /\ BaselineRows = {}

\* The integer written between the last underscore of a path and the first
\* dot after it.
TrailingSize(path) ==
    LET u == CHOOSE i \in 1..Len(path) :
                 path[i] = "_" /\ \A j \in (i + 1)..Len(path) : path[j] # "_"
        d == CHOOSE i \in (u + 1)..Len(path) :
                 path[i] = "." /\ \A j \in (u + 1)..(i - 1) : path[j] # "."
    IN  DigitsValue(SubSeq(path, u + 1, d - 1))

\* C5: every row of benchmarks_data_frame and of markdown_data_frame has
\* the size written in the trailing token of the path of the file the row
\* was read from.
C5_RowSizeFromFile ==
    /\ \A i \in 1..Len(records) : records[i].size = TrailingSize(records[i].src)
    /\ \A i \in 1..Len(df) : df[i].size = TrailingSize(df[i].src)
    /\ \A i \in 1..Len(records_markdown) :
          records_markdown[i].Elements = TrailingSize(records_markdown[i].src)
    /\ \A i \in 1..Len(markdown_df) :
          markdown_df[i].Elements = TrailingSize(markdown_df[i].src)

C5_Witness ==
    /\ \E i \in 1..Len(df) :
          df[i].src = PathJoin(BenchmarksDir, NameB) /\ df[i].size = 2000
    /\ \E i \in 1..Len(markdown_df) :
          markdown_df[i].src = PathJoin(BenchmarksDir, NameA)
          /\ markdown_df[i].Elements = 1000

\* C6: smoothing keeps the length of the ratio sequence, and what is drawn
\* is paired with the common sizes in ascending order: no point is added or
\* removed.
C6_SmoothingKeepsPoints ==
    \A k \in 1..Len(series) :
        /\ Len(series[k].smooth) = Len(series[k].ratios)
        /\ series[k].sizes = Ascending(CommonSizes(series[k].func))
        /\ series[k].drawn => Len(series[k].smooth) = Len(series[k].sizes)

\* A series the filter changed.
C6_Witness ==
    \E k \in 1..Len(series) :
        /\ series[k].drawn
        /\ series[k].attempted /\ ~series[k].raised
        /\ series[k].smooth # series[k].ratios

\* C7: the filter is attempted only for at least 5 points; for fewer
\* points and whenever the filter raises, the sequence drawn is the
\* unsmoothed one; a raise costs one warning and never ends the run.
C7_SmoothingFallback ==
    /\ \A k \in 1..Len(series) :
          /\ series[k].attempted <=> Len(series[k].ratios) >= 5
          /\ series[k].raised => series[k].attempted
          /\ (Len(series[k].ratios) < 5 \/ series[k].raised)
                => series[k].smooth = series[k].ratios
          /\ (series[k].raised /\ Len(series[k].sizes) = Len(series[k].ratios))
                => series[k].drawn
    /\ warned = Cardinality({k \in 1..Len(series) : series[k].raised})
    /\ error.type # "LinAlgError"

\* A run that ends normally although the filter raised for one competitor,
\* and that drew a later competitor's series.
C7_Witness ==
    /\ pc = "done"
    /\ warned = 1
    /\ \E k \in 1..Len(series) :
          /\ series[k].raised /\ series[k].drawn
          /\ k < Len(series) /\ series[Len(series)].drawn

\* The rows of a sequence with their multiplicities.
BagOfSeq(rows) ==
    [r \in SeqRange(rows) |-> Cardinality({i \in 1..Len(rows) : rows[i] = r})]

\* benchmarks_data_frame has returned its table.
Aggregated ==
    pc \in {"plot", "acc_start", "acc_loop", "md_load", "md_read", "md_save", "done"}

\* C8: the table holds, as a collection of rows, what the set of located
\* files determines, whatever the order in which the files were read.
C8_OrderIndependent ==
    Aggregated =>
        /\ \A i \in 1..Len(df) : df[i].src \in SeqRange(files)
        /\ \A f \in SeqRange(files) :
              BagOfSeq(SelectSeq(df, LAMBDA r : r.src = f))
                  = BagOfSeq(BdfRows(f, fileData[BaseName(f)]).rows)

\* The file of size 2000 read before the file of size 1000.
C8_Witness ==
    /\ pc = "plot"
    /\ files = <<PathJoin(BenchmarksDir, NameB), PathJoin(BenchmarksDir, NameA)>>
    /\ Len(df) = 4
    /\ df[1].size = 2000 /\ df[4].size = 1000

\* The functions whose series has been drawn.
Emitted == {series[k].func : k \in {j \in 1..Len(series) : series[j].drawn}}

\* C9: of the names handled so far, a series is drawn for exactly those
\* that do not contain the marker and share a size with the baseline; an
\* empty intersection is skipped and the loop goes on; when
\* acceleration_plot has returned, every distinct name has been handled.
C9_SeriesForCommonSizes ==
    /\ \A i \in 1..accIdx :
          func_names[i] \in Emitted <=>
              /\ ~Contains(func_names[i], BaselineMarker)
              /\ CommonSizes(func_names[i]) # {}
    /\ Emitted \subseteq {func_names[i] : i \in 1..accIdx}
    /\ Cardinality(Emitted) = Cardinality({j \in 1..Len(series) : series[j].drawn})
    /\ pc \in {"md_load", "md_read", "md_save", "done"} =>
          /\ accIdx = Len(func_names)
          /\ SeqRange(func_names) = {df[i].func : i \in 1..Len(df)}

\* A competitor without a common size is handled before one with a series.
C9_Witness ==
    /\ pc = "md_load"
    /\ \E i, j \in 1..Len(func_names) :
          /\ i < j
          /\ ~Contains(func_names[i], BaselineMarker)
          /\ CommonSizes(func_names[i]) = {}
          /\ func_names[j] \in Emitted

\* The number a formatted OPS cell shows, in hundredths.
OpsValue(cell) ==
    LET d == CHOOSE i \in 1..Len(cell) : cell[i] = "."
    IN  100 * DigitsValue(SubSeq(cell, 1, d - 1))
            + DigitsValue(SubSeq(cell, d + 1, Len(cell)))

\* C10: the report's sections are in ascending order of size, one per
\* distinct size; each section holds exactly the rows of its size; within a
\* section the rows are in descending order of the numeric OPS value.
C10_ReportOrder ==
    pc = "done" =>
        /\ \A k \in 2..Len(report) : report[k - 1].size < report[k].size
        /\ {report[k].size : k \in 1..Len(report)}
              = {markdown_df[i].Elements : i \in 1..Len(markdown_df)}
        /\ \A k \in 1..Len(report) :
              /\ BagOfSeq(report[k].lines) =
                    BagOfSeq([i \in 1..Len(SelectSeq(markdown_df,
                                   LAMBDA r : r.Elements = report[k].size)) |->
                                 MdLine(MdFormat(SelectSeq(markdown_df,
                                   LAMBDA r : r.Elements = report[k].size)[i]))])
              /\ \A i \in 2..Len(report[k].lines) :
                    OpsValue(report[k].lines[i - 1].OPS) >= OpsValue(report[k].lines[i].OPS)

\* A section whose numeric order is the reverse of the order of the
\* formatted strings: 1000.00 before 200.00.
C10_Witness ==
    /\ pc = "done"
    /\ Len(report) >= 2
    /\ \E k \in 1..Len(report) :
          /\ Len(report[k].lines) >= 2
          /\ report[k].lines[1].OPS = Fmt2f(1000)
          /\ report[k].lines[2].OPS = Fmt2f(200)

\* run() has ended by an exception.
Failed == error # NoError

\* C11: when a run has failed, nothing it wrote is kept: the output
\* directory does not exist and no chart and no report is in it.
C11_NoPartialResults ==
    Failed => outDir = FALSE /\ artifacts = {}

\* The constructor has returned or raised.
Constructed == pc \notin {"main", "start"} \/ (pc = "start" /\ Failed)

\* C12: an invocation constructed at a time other than the creation times
\* of the earlier invocations has an output directory that its own
\* benchmarks_setup created and that none of the earlier ones writes into.
C12_RunsIsolated ==
    Constructed /\ clock \notin earlier =>
        /\ fresh
        /\ \A t \in earlier : BenchmarksSetup(t, {}).dir # benchmarks_plot_dir

\* C13: a command line that gives a run identifier, with or without a
\* platform qualifier after it, does not fail in the entry point: it
\* constructs the analysis for that identifier and executes run(), so that a
\* failure, if any, is a failure of the constructor's body or of run().
C13_CliRunsPipeline ==
    Len(argv) >= 1 /\ Failed => pc # "main"

\* C14: every ratio sequence that acceleration_plot has computed has one
\* value per common size, and its i-th value is the throughput of a baseline
\* row over the throughput of a row of the competitor, both rows of the i-th
\* common size.
C14_OneRatioPerCommonSize ==
    \A k \in 1..Len(series) :
        /\ Len(series[k].ratios) = Len(series[k].sizes)
        /\ \A i \in 1..Len(series[k].sizes) :
              \E b \in BaselineRows, c \in RowsOf(series[k].func) :
                  /\ df[b].size = series[k].sizes[i]
                  /\ df[c].size = series[k].sizes[i]
                  /\ IsQuotient(series[k].ratios[i], df[b].ops, df[c].ops)

====
